---------------------------- MODULE Spec2Model ----------------------------
(***************************************************************************)
(* A model of pp::Range, pp::BaseVector and pp::Inner of ndarray-11.hpp:   *)
(* the slice-string parser, the negative-index-aware accessor at, the      *)
(* call-style indexing operator() and the bracket-style slicing operator[] *)
(* with its recursive slice, for arrays of rank 2 (Inner<Dtype,2> whose    *)
(* children are Inner<Dtype,1>).                                           *)
(*                                                                         *)
(* Text is a sequence of one-character strings.  An Inner<Dtype,1> object  *)
(* is the address of its element buffer in heap; an Inner<Dtype,2> object  *)
(* is the sequence of its children.  int and std::size_t keep the orders   *)
(* the C++ conversions give them (see SizeT).                              *)
(***************************************************************************)
EXTENDS Integers, Sequences, FiniteSets, TLC

\* ------------------------------------------------------------------ bounds
\* Longest axis of the arrays the model builds.
MaxLen == 2
\* Slice bounds range over -MaxIdx .. MaxIdx.
MaxIdx == 3
\* A loop with step 0 appends for ever; only its first SpinCap elements are recorded.
SpinCap == 2
\* No more than MaxWrites writes follow a slice.
MaxWrites == 2

\* ------------------------------------------------------- program constants
\* The rank of the array type under study, Inner<Dtype, 2>.
dim == 2
\* The range of int, the type of Range's fields and of every index.
IntMax == 2147483647
IntMin == -IntMax - 1

\* ---------------------------------------------------------------- text
Digit == {"0", "1", "2", "3", "4", "5", "6", "7", "8", "9"}

DigitVal(c) ==
    CASE c = "0" -> 0 [] c = "1" -> 1 [] c = "2" -> 2 [] c = "3" -> 3
      [] c = "4" -> 4 [] c = "5" -> 5 [] c = "6" -> 6 [] c = "7" -> 7
      [] c = "8" -> 8 [] c = "9" -> 9

\* The characters \s matches, of those the model writes.
IsSpace(c) == c = " "

\* The end of the longest match of \s* in str from position p.
RECURSIVE SkipSpace(_, _)
SkipSpace(str, p) ==
    IF p <= Len(str) /\ IsSpace(str[p]) THEN SkipSpace(str, p + 1) ELSE p

\* The end of the longest match of \d* in str from position p.
RECURSIVE SkipDigits(_, _)
SkipDigits(str, p) ==
    IF p <= Len(str) /\ str[p] \in Digit THEN SkipDigits(str, p + 1) ELSE p

\* The capture group (-?\d+)? at position p: the position after it (p when the
\* group matches nothing).
MatchInt(str, p) ==
    LET q == IF p <= Len(str) /\ str[p] = "-" THEN p + 1 ELSE p
        e == SkipDigits(str, q)
    IN  IF e > q THEN e ELSE p

\* Whether the literal ':' stands at position p.
IsColon(str, p) == p <= Len(str) /\ str[p] = ":"

\* std::stoi on a match of -?\d+: the value, or "out_of_range" when it does not
\* fit an int.  The value is accumulated with the literal's sign so that the
\* whole range of int, IntMin included, is reached.
RECURSIVE StoiAcc(_, _, _, _)
StoiAcc(s, p, neg, acc) ==
    IF p > Len(s) THEN [ok |-> TRUE, v |-> acc]
    ELSE LET d == DigitVal(s[p])
         IN  IF neg
             THEN IF acc < (IntMin + d + 9) \div 10
                  THEN [ok |-> FALSE, v |-> 0]
                  ELSE StoiAcc(s, p + 1, neg, acc * 10 - d)
             ELSE IF acc > (IntMax - d) \div 10
                  THEN [ok |-> FALSE, v |-> 0]
                  ELSE StoiAcc(s, p + 1, neg, acc * 10 + d)

stoi(s) ==
    IF s[1] = "-" THEN StoiAcc(s, 2, TRUE, 0) ELSE StoiAcc(s, 1, FALSE, 0)

\* The regular expression of parseRange with n colons, matched against the whole
\* of str: the captured groups, as <<from, to>> position pairs (from = to: empty).
regex_match(str, n) ==
    LET b1 == SkipSpace(str, 1)
        e1 == MatchInt(str, b1)
        c1 == SkipSpace(str, e1)
        b2 == SkipSpace(str, c1 + 1)
        e2 == MatchInt(str, b2)
        c2 == SkipSpace(str, e2)
        b3 == SkipSpace(str, c2 + 1)
        e3 == MatchInt(str, b3)
        z3 == SkipSpace(str, e3)
    IN  IF n = 2
        THEN [matched |-> IsColon(str, c1) /\ IsColon(str, c2) /\ z3 = Len(str) + 1,
              sm |-> << <<b1, e1>>, <<b2, e2>>, <<b3, e3>> >>]
        ELSE [matched |-> IsColon(str, c1) /\ c2 = Len(str) + 1,
              sm |-> << <<b1, e1>>, <<b2, e2>> >>]

\* sm[g] as a string.
Group(str, m, g) == SubSeq(str, m.sm[g][1], m.sm[g][2] - 1)

\* "return {start, step, stop, has_stop}" for "return {start, stop, step, has_stop}".
MkRange_Swapped(start, stop, step, has_stop) ==
    [err |-> "none", start |-> start, stop |-> step, step |-> stop,
     has_stop |-> has_stop]

\* A Range, or the exception parseRange ends with.
MkRange(start, stop, step, has_stop) ==
    [err |-> "none", start |-> start, stop |-> stop, step |-> step,
     has_stop |-> has_stop]
Thrown(e) ==
    [err |-> e, start |-> 0, stop |-> 0, step |-> 1, has_stop |-> FALSE]

\* The field a group gives: its std::stoi, or dflt when the group is empty.
Field(s, dflt) == IF s = <<>> THEN [ok |-> TRUE, v |-> dflt] ELSE stoi(s)

\* Range::parseRange.
parseRange(str) ==
    LET m3 == regex_match(str, 2)
        m2 == regex_match(str, 1)
    IN  IF m3.matched
        THEN LET start == Field(Group(str, m3, 1), 0)
                 stop  == Field(Group(str, m3, 2), 0)
                 step  == Field(Group(str, m3, 3), 1)
             IN  IF start.ok /\ stop.ok /\ step.ok
                 THEN MkRange(start.v, stop.v, step.v, Group(str, m3, 2) # <<>>)
                 ELSE Thrown("OutOfRange")
        ELSE IF m2.matched
        THEN LET start == Field(Group(str, m2, 1), 0)
                 stop  == Field(Group(str, m2, 2), 0)
             IN  IF start.ok /\ stop.ok
                 THEN MkRange(start.v, stop.v, 1, Group(str, m2, 2) # <<>>)
                 ELSE Thrown("OutOfRange")
        ELSE Thrown("FormatError")


\* ------------------------------------------------------ splitting the spec
\* The first ',' of str at or after position p, or 0.
RECURSIVE FindComma(_, _)
FindComma(str, p) ==
    IF p > Len(str) THEN 0
    ELSE IF str[p] = "," THEN p ELSE FindComma(str, p + 1)

\* The start of the white space that ends at position p (exclusive).
RECURSIVE SpaceBefore(_, _)
SpaceBefore(str, p) ==
    IF p > 1 /\ IsSpace(str[p - 1]) THEN SpaceBefore(str, p - 1) ELSE p

\* The tokens std::sregex_token_iterator (submatch -1) gives after a first match
\* of \s*,\s* : the text before each further match and, when it is not empty,
\* the text after the last one.
RECURSIVE TokensAfter(_, _)
TokensAfter(str, p) ==
    LET c == FindComma(str, p)
    IN  IF c = 0
        THEN IF p > Len(str) THEN <<>> ELSE <<SubSeq(str, p, Len(str))>>
        ELSE <<SubSeq(str, p, SpaceBefore(str, c) - 1)>>
                 \o TokensAfter(str, SkipSpace(str, c + 1))

\* All tokens of str: with no match of the separator, str itself, empty or not.
Tokens(str) ==
    LET c == FindComma(str, 1)
    IN  IF c = 0 THEN <<str>>
        ELSE <<SubSeq(str, 1, SpaceBefore(str, c) - 1)>>
                 \o TokensAfter(str, SkipSpace(str, c + 1))

\* The loop of Inner::operator[] over the tokens: the ranges parsed so far, or the
\* first exception.  "Too many slices" is thrown when a token is reached with
\* i >= dim, before that token is parsed and after the earlier ones were.
RECURSIVE ParseTokens(_, _, _)
ParseTokens(toks, n, slices) ==
    IF n > Len(toks) THEN [err |-> "none", slices |-> slices]
    ELSE IF n - 1 >= dim THEN [err |-> "TooManySlices", slices |-> <<>>]
    ELSE LET r == parseRange(toks[n])
         IN  IF r.err # "none" THEN [err |-> r.err, slices |-> <<>>]
             ELSE ParseTokens(toks, n + 1, Append(slices, r))


\* ------------------------------------------------------- integers and at
\* An int converted to std::size_t, as <<h, x>> standing for h * 2^w + x, w the
\* width of std::size_t: a negative int wraps to the top of the range.
SizeT(x) == <<IF x < 0 THEN 1 ELSE 0, x>>

\* a < b on two std::size_t values.
SizeLess(a, b) == a[1] < b[1] \/ (a[1] = b[1] /\ a[2] < b[2])

\* The exception-free std::vector::at of a vector of n elements: the position
\* read, from 0.
vector_at(n, idx) ==
    IF SizeLess(SizeT(idx), SizeT(n)) THEN [ok |-> TRUE, pos |-> idx]
    ELSE [ok |-> FALSE, pos |-> 0]

\* at with "idx += this->size() - 1" for "idx += this->size()".
at_OffByOne(n, idx) ==
    IF idx < 0
    THEN IF idx + n - 1 < 0 THEN [ok |-> FALSE, pos |-> 0]
         ELSE vector_at(n, idx + n - 1)
    ELSE vector_at(n, idx)

\* BaseVector::at on a vector of n elements (both overloads).
at(n, idx) ==
    IF idx < 0
    THEN IF idx + n < 0 THEN [ok |-> FALSE, pos |-> 0]
         ELSE vector_at(n, idx + n)
    ELSE vector_at(n, idx)

\* ------------------------------------------------------------ the state
VARIABLES
    heap,     \* address -> the elements of the Inner<Dtype,1> stored there
    A,        \* the array sliced and indexed: the addresses of its children
    B,        \* the array the slice was assigned to
    hasB,     \* whether B was assigned
    pc,       \* where the client is: "idle", in "slice", "returned", "sliced"
    input,    \* the argument of operator[]
    slices,   \* operator[]'s array of parsed ranges
    end,      \* the number of ranges parsed (slice's parameter end)
    stack,    \* the active calls of slice, the outermost first
    err,      \* the exception the last call ended with, or "none"
    ret,      \* the array the last operator[] returned
    accessed, \* whether the running operator[] has read an element of A
    view,     \* the reference or exception the last call-style indexing gave
    writes    \* the writes made

vars == <<heap, A, B, hasB, pc, input, slices, end, stack, err, ret,
          accessed, view, writes>>

\* The first address not in use.
NewAddr(h) ==
    CHOOSE a \in 1..(Cardinality(DOMAIN h) + 1) :
        a \notin DOMAIN h /\ \A b \in 1..(a - 1) : b \in DOMAIN h

\* h with a new Inner<Dtype,1> of the given elements at address a.
Store(h, a, elems) == [x \in DOMAIN h \cup {a} |-> IF x = a THEN elems ELSE h[x]]

\* h without the vectors at the addresses in S (their destructors ran).
Free(h, S) == [x \in DOMAIN h \ S |-> h[x]]

\* The set of addresses in a sequence of children.
Rows(arr) == {arr[n] : n \in 1..Len(arr)}

\* The value of an array: its children's elements.
Value(h, arr) == [n \in 1..Len(arr) |-> h[arr[n]]]

\* ------------------------------------------------------------- slicing
\* One activation of slice: self is 0 for A and the child's address otherwise;
\* r, stop, i and result are slice's locals.
Frame(self, r, n) ==
    [self |-> self, r |-> r,
     stop |-> IF r.has_stop THEN SizeT(r.stop) ELSE SizeT(n),
     i |-> r.start, result |-> <<>>]

Top == stack[Len(stack)]

\* this->size() of the array an activation runs on.
SizeOf(f) == IF f.self = 0 THEN Len(A) ELSE Len(heap[f.self])

\* The loop condition i < stop, i converted to std::size_t.
LoopCond(f) == SizeLess(SizeT(f.i), f.stop)

\* result.push_back(x) followed by i += r.step.  With step 0 the loop appends
\* for ever: the elements after the first SpinCap are not recorded.
Advance(f, x) ==
    [f EXCEPT !.result = IF f.r.step = 0 /\ Len(f.result) >= SpinCap
                         THEN f.result ELSE Append(f.result, x),
              !.i = f.i + f.r.step]

\* Whether Advance records the element pushed.
Records(f) == ~(f.r.step = 0 /\ Len(f.result) >= SpinCap)

\* "return *this" handing out the child itself, as a view would.
CopyAddr_Alias(h, a) == a

\* The copy "return *this" makes of the child at address a: a new vector.
CopyAddr(h, a) == NewAddr(h)

\* The client evaluates A[text]: operator[] splits and parses the text and, when
\* that throws nothing, enters slice(slices, 0, i).
Call(text) ==
    /\ pc = "idle"
    /\ LET p == ParseTokens(Tokens(text), 1, <<>>)
       IN  /\ input' = text
           /\ accessed' = FALSE
           /\ ret' = <<>>
           /\ IF p.err # "none"
              THEN /\ err' = p.err
                   /\ pc' = "returned"
                   /\ slices' = <<>>
                   /\ end' = 0
                   /\ stack' = <<>>
              ELSE /\ err' = "none"
                   /\ slices' = p.slices
                   /\ end' = Len(p.slices)
                   /\ IF Len(p.slices) = 0
                      THEN /\ pc' = "returned"
                           /\ stack' = <<>>
                      ELSE /\ pc' = "slice"
                           /\ stack' = <<Frame(0, p.slices[1], Len(A))>>
    /\ UNCHANGED <<heap, A, B, hasB, view, writes>>

\* The loop of the innermost activation ends: slice returns its result, to
\* operator[] or to the push_back of the activation that called it.
LoopExit ==
    /\ pc = "slice"
    /\ ~LoopCond(Top)
    /\ IF Len(stack) = 1
       THEN /\ ret' = Top.result
            /\ pc' = "returned"
            /\ stack' = <<>>
            /\ heap' = heap
       ELSE LET f == stack[1]
                a == NewAddr(heap)
            IN  /\ stack' = <<Advance(f, a)>>
                /\ heap' = IF Records(f) THEN Store(heap, a, Top.result) ELSE heap
                /\ UNCHANGED <<ret, pc>>
    /\ UNCHANGED <<A, B, hasB, input, slices, end, err, accessed, view, writes>>

\* this->at(i) throws std::out_of_range: every activation is unwound and the
\* results built so far are destroyed.
LoopThrow ==
    /\ pc = "slice"
    /\ LoopCond(Top)
    /\ ~at(SizeOf(Top), Top.i).ok
    /\ err' = "OutOfRange"
    /\ pc' = "returned"
    /\ heap' = Free(heap, Rows(stack[1].result))
    /\ stack' = <<>>
    /\ UNCHANGED <<A, B, hasB, input, slices, end, ret, accessed, view, writes>>

\* One pass of the loop body of the innermost activation.
LoopBody ==
    /\ pc = "slice"
    /\ LoopCond(Top)
    /\ at(SizeOf(Top), Top.i).ok
    /\ LET f == Top
           pos == at(SizeOf(f), f.i).pos + 1
       IN  IF f.self # 0
           THEN \* Inner<Dtype,1>::slice: push_back(this->at(i))
                /\ stack' = <<stack[1], Advance(f, heap[f.self][pos])>>
                /\ heap' = heap
           ELSE IF Len(stack) = end
           THEN \* the child's slice returns *this: a copy of the child
                LET a == CopyAddr(heap, A[pos])
                IN  /\ stack' = <<Advance(f, a)>>
                    /\ heap' = IF Records(f) /\ a \notin DOMAIN heap
                               THEN Store(heap, a, heap[A[pos]]) ELSE heap
           ELSE \* the child's slice runs its own loop
                /\ stack' = <<f, Frame(A[pos], slices[Len(stack) + 1],
                                       Len(heap[A[pos]]))>>
                /\ heap' = heap
    /\ accessed' = TRUE
    /\ UNCHANGED <<A, B, hasB, pc, input, slices, end, err, ret, view, writes>>


\* The client's "B = A[...]" completes: the array returned becomes B.
Assign ==
    /\ pc = "returned"
    /\ err = "none"
    /\ B' = ret
    /\ hasB' = TRUE
    /\ pc' = "sliced"
    /\ input' = <<>>
    /\ slices' = <<>>
    /\ end' = 0
    /\ ret' = <<>>
    /\ accessed' = FALSE
    /\ UNCHANGED <<heap, A, stack, err, view, writes>>

\* The client catches the exception of A[...]; nothing was assigned.
Catch ==
    /\ pc = "returned"
    /\ err # "none"
    /\ pc' = "idle"
    /\ err' = "none"
    /\ input' = <<>>
    /\ slices' = <<>>
    /\ end' = 0
    /\ accessed' = FALSE
    /\ UNCHANGED <<heap, A, B, hasB, stack, ret, view, writes>>

\* ------------------------------------------------------ call-style indexing
\* What a call of operator() gives: an exception, or a reference to a child
\* ("child": addr), to an element ("element": addr, pos from 1) or to an
\* Inner<Dtype,1> of n elements built for the return and destroyed by it
\* ("temporary").  val is what a later read through the reference saw.
Ref(kind, addr, pos, n) ==
    [err |-> "none", kind |-> kind, addr |-> addr, pos |-> pos, n |-> n,
     val |-> 0, const |-> FALSE, args |-> <<>>]
Raise(e) ==
    [err |-> e, kind |-> "none", addr |-> 0, pos |-> 0, n |-> 0,
     val |-> 0, const |-> FALSE, args |-> <<>>]

\* The client holds no reference.
NoView == [Raise("none") EXCEPT !.err = "none"]

\* Inner<Dtype,dim>::operator()(int idx), both overloads.
CallOne(arr, idx) ==
    LET a == at(Len(arr), idx)
    IN  IF a.ok THEN Ref("child", arr[a.pos + 1], 0, 0) ELSE Raise("OutOfRange")

\* Inner<Dtype,1>::operator()(int idx), both overloads, on the vector at addr.
CallElement(h, addr, idx) ==
    LET a == at(Len(h[addr]), idx)
    IN  IF a.ok THEN Ref("element", addr, a.pos + 1, 0) ELSE Raise("OutOfRange")

\* Inner<Dtype,dim>::operator()(int idx, Indices... indices): the result type
\* is that of this->at(idx)(indices...).
CallMany(h, arr, idx, idx2) ==
    LET c == CallOne(arr, idx)
    IN  IF c.err # "none" THEN c ELSE CallElement(h, c.addr, idx2)

\* Inner<Dtype,dim>::operator()(int idx, Indices... indices) const: declared to
\* return const Inner<Dtype,dim-1>&.  The const Dtype& the inner call gives is
\* converted by Inner<Dtype,1>(std::size_t n, const Dtype& val = Dtype{}) to an
\* array of n = element value default elements, a temporary of the return
\* statement; a negative element converts to an n beyond max_size().
CallManyConst(h, arr, idx, idx2) ==
    LET e == CallMany(h, arr, idx, idx2)
    IN  IF e.err # "none" THEN e
        ELSE IF h[e.addr][e.pos] < 0 THEN Raise("length_error")
        ELSE Ref("temporary", 0, 0, h[e.addr][e.pos])

\* The array a name of the client denotes.
Named(t) == IF t = "A" THEN A ELSE B

\* The client's "t(i, j) = v" on its mutable array t.  A reference held from an
\* earlier call is not used after a write.
WriteElement(t, i, j, v) ==
    /\ pc \in {"sliced", "index"}
    /\ writes < MaxWrites
    /\ t = "B" => hasB
    /\ LET e == CallMany(heap, Named(t), i, j)
       IN  IF e.err # "none"
           THEN /\ err' = e.err
                /\ heap' = heap
           ELSE /\ err' = "none"
                /\ heap' = [heap EXCEPT ![e.addr][e.pos] = v]
    /\ writes' = writes + 1
    /\ view' = NoView
    /\ UNCHANGED <<A, B, hasB, pc, input, slices, end, stack, ret, accessed>>

\* The client's "t(i) = Inner<Dtype,1>{...}" with the given elements.
WriteChild(t, i, elems) ==
    /\ pc \in {"sliced", "index"}
    /\ writes < MaxWrites
    /\ t = "B" => hasB
    /\ LET c == CallOne(Named(t), i)
       IN  IF c.err # "none"
           THEN /\ err' = c.err
                /\ heap' = heap
           ELSE /\ err' = "none"
                /\ heap' = [heap EXCEPT ![c.addr] = elems]
    /\ writes' = writes + 1
    /\ view' = NoView
    /\ UNCHANGED <<A, B, hasB, pc, input, slices, end, stack, ret, accessed>>

\* The client evaluates A(i), on a mutable or a const A.
IndexOne(c, i) ==
    /\ pc = "index"
    /\ view' = [CallOne(A, i) EXCEPT !.const = c, !.args = <<i>>]
    /\ UNCHANGED <<heap, A, B, hasB, pc, input, slices, end, stack, err, ret,
                   accessed, writes>>

\* The client evaluates A(i, j), on a mutable or a const A.
IndexMany(c, i, j) ==
    /\ pc = "index"
    /\ view' = [(IF c THEN CallManyConst(heap, A, i, j)
                      ELSE CallMany(heap, A, i, j))
                  EXCEPT !.const = c, !.args = <<i, j>>]
    /\ UNCHANGED <<heap, A, B, hasB, pc, input, slices, end, stack, err, ret,
                   accessed, writes>>

\* The client reads through the reference it holds: an element's value, or the
\* size of a child.  The temporary was destroyed when operator() returned, so a
\* read of its size is undefined: any value may be seen.
Deref ==
    /\ pc = "index"
    /\ view.err = "none"
    /\ view.kind # "none"
    /\ \/ /\ view.kind = "element"
          /\ view' = [view EXCEPT !.val = heap[view.addr][view.pos]]
       \/ /\ view.kind = "child"
          /\ view' = [view EXCEPT !.val = Len(heap[view.addr])]
       \/ /\ view.kind = "temporary"
          /\ \E x \in 0..MaxLen : view' = [view EXCEPT !.val = x]
    /\ UNCHANGED <<heap, A, B, hasB, pc, input, slices, end, stack, err, ret,
                   accessed, writes>>

\* The client parses one axis expression with Range::parseRange.
Parse ==
    /\ pc = "parse"
    /\ slices = <<>>
    /\ slices' = <<parseRange(input)>>
    /\ UNCHANGED <<heap, A, B, hasB, pc, input, end, stack, err, ret, accessed,
                   view, writes>>


\* ------------------------------------------------- the client's inputs
DigitChar(d) ==
    CASE d = 0 -> "0" [] d = 1 -> "1" [] d = 2 -> "2" [] d = 3 -> "3"
      [] d = 4 -> "4" [] d = 5 -> "5" [] d = 6 -> "6" [] d = 7 -> "7"
      [] d = 8 -> "8" [] d = 9 -> "9"

\* The decimal text of an integer, as the client writes it.
RECURSIVE NatText(_)
NatText(n) ==
    IF n < 10 THEN <<DigitChar(n)>>
    ELSE NatText(n \div 10) \o <<DigitChar(n % 10)>>
IntText(n) == IF n < 0 THEN <<"-">> \o NatText(-n) ELSE NatText(n)

Starts == (-MaxIdx)..(MaxIdx - 1)
Stops == (1 - MaxIdx)..MaxIdx
Steps == {-1, 0, 1, 2}

\* "a:b" and "a:b:c".
Colon2(a, b) == a \o <<":">> \o b
Colon3(a, b, c) == a \o <<":">> \o b \o <<":">> \o c
Comma(a, b) == a \o <<",">> \o b

\* The axis expressions of the slices: start:stop:step and start::step.
AxisTexts ==
    {Colon3(IntText(s), b, IntText(p)) :
        s \in Starts, b \in {<<>>} \cup {IntText(x) : x \in Stops}, p \in Steps}

\* A few components for the other axis: ":", "0:1", " 1 : ", "a" and "".
SmallTexts ==
    {<<":">>, <<"0", ":", "1">>, <<" ", "1", " ", ":", " ">>, <<"a">>, <<>>}

\* The arguments of operator[]: one, two and three components.
Inputs ==
    AxisTexts
    \cup {Comma(a, b) : a \in AxisTexts, b \in SmallTexts}
    \cup {Comma(a, b) : a \in SmallTexts, b \in AxisTexts}
    \cup {Comma(a, Comma(b, c)) : a \in SmallTexts, b \in SmallTexts, c \in SmallTexts}

\* The axis expressions of the parser: every field present or absent, one or two
\* colons, with and without white space, integers at the ends of int's range,
\* and texts that are no axis expression.
OptInts == {<<>>} \cup {IntText(x) : x \in (-MaxIdx)..MaxIdx}
Pad(t) == <<" ">> \o t \o <<" ", " ">>
BigInts ==
    {<<"2","1","4","7","4","8","3","6","4","7">>,
     <<"2","1","4","7","4","8","3","6","4","8">>,
     <<"-","2","1","4","7","4","8","3","6","4","8">>,
     <<"-","2","1","4","7","4","8","3","6","4","9">>,
     <<"9","9","9","9","9","9","9","9","9","9","9">>,
     <<"0","0","7">>, <<"-","0">>, <<"1","0">>}
NoAxisTexts ==
    {<<>>, <<"3">>, <<"-","3">>, <<"a","b","c">>, <<"1"," ","2",":","3">>,
     <<"-"," ","1",":","2">>, <<"+","1",":","2">>, <<":",":",":">>,
     <<"1",":","2","a">>, <<"-",":">>, <<" ">>, <<"1",":","-">>}
ParseTexts ==
    {Colon2(a, b) : a \in OptInts, b \in OptInts}
    \cup {Colon3(a, b, c) : a \in OptInts, b \in OptInts, c \in OptInts}
    \cup {Colon2(Pad(a), Pad(b)) : a \in OptInts, b \in OptInts}
    \cup {Colon3(Pad(a), Pad(b), Pad(c)) :
              a \in OptInts, b \in {<<>>, <<"2">>}, c \in OptInts}
    \cup {Colon2(a, b) : a \in BigInts, b \in {<<>>, <<"2">>}}
    \cup {Colon2(<<>>, a) : a \in BigInts}
    \cup {Colon3(<<>>, a, b) : a \in BigInts, b \in {<<>>, <<"2">>}}
    \cup {Colon3(<<>>, <<>>, a) : a \in BigInts}
    \cup NoAxisTexts

\* The shapes of A: m children of n elements each, and m children of
\* MaxLen, MaxLen - 1, ... elements (a ragged array).
Rect(m, n) == [a \in 1..m |-> n]
Stair(m) == [a \in 1..m |-> MaxLen + 1 - a]
Shapes ==
    {Rect(m, n) : m \in 0..MaxLen, n \in 0..MaxLen} \cup {Stair(m) : m \in 2..MaxLen}

\* The array of a shape: child a is stored at address a; its element c is 10a + c.
InitHeap(shape) == [a \in 1..Len(shape) |-> [c \in 1..shape[a] |-> 10 * a + c]]
InitArray(shape) == [a \in 1..Len(shape) |-> a]

\* The values the client writes, and the indices it indexes with.
WriteVals == {-1}
Indices == (-MaxIdx)..MaxIdx
\* The indices of the writes: the last and the first positions, and one beyond
\* every axis.
WriteIndices == {-1, 0, MaxLen}

\* ------------------------------------------------------ specifications
InitState(mode, texts) ==
    /\ \E shape \in Shapes :
          /\ heap = InitHeap(shape)
          /\ A = InitArray(shape)
    /\ B = <<>>
    /\ hasB = FALSE
    /\ pc = mode
    /\ input \in texts
    /\ slices = <<>>
    /\ end = 0
    /\ stack = <<>>
    /\ err = "none"
    /\ ret = <<>>
    /\ accessed = FALSE
    /\ view = NoView
    /\ writes = 0

\* A client that slices A once and then writes to A and to the slice.
Init == InitState("idle", {<<>>})

Write ==
    /\ pc \in {"sliced", "index"}
    /\ writes < MaxWrites
    /\ \E t \in {"A", "B"}, i \in WriteIndices :
          \/ \E j \in WriteIndices, v \in WriteVals : WriteElement(t, i, j, v)
          \/ WriteChild(t, i, <<7>>)

Next ==
    \/ pc = "idle" /\ \E text \in Inputs : Call(text)
    \/ LoopExit
    \/ LoopThrow
    \/ LoopBody
    \/ Assign
    \/ Catch
    \/ Write

Spec == Init /\ [][Next]_vars

\* operator[] runs to its end once called: it is sequential code.
SpecFair == Spec /\ WF_vars(LoopExit \/ LoopThrow \/ LoopBody)

\* A client that indexes A, mutable and const, before and after one write
\* through operator().
InitIndex == InitState("index", {<<>>})

NextIndex ==
    \/ \E c \in BOOLEAN, i \in Indices : IndexOne(c, i)
    \/ \E c \in BOOLEAN, i \in Indices, j \in Indices : IndexMany(c, i, j)
    \/ Deref
    \/ writes = 0 /\ Write

SpecIndex == InitIndex /\ [][NextIndex]_vars

\* A client that parses axis expressions.
InitParse ==
    /\ InitState("parse", ParseTexts)
    /\ Len(A) = 0

SpecParse == InitParse /\ [][Parse]_vars


\* ======================================================== the claims
\* ------------------------------------------------------------------ C2
\* The position (from 1) the negative-index law gives index i in a sequence
\* of n elements, or 0 where the law says OutOfRange.
C2_Law(n, i) ==
    IF 0 <= i /\ i < n THEN i + 1
    ELSE IF -n <= i /\ i < 0 THEN i + n + 1
    ELSE 0

\* The single-index call A(i), on a mutable and on a const A of n children.
C2_Outer ==
    Len(view.args) = 1 =>
        LET p == C2_Law(Len(A), view.args[1])
        IN  IF p = 0 THEN view.err = "OutOfRange"
            ELSE view.err = "none" /\ view.kind = "child" /\ view.addr = A[p]

\* The single-index call on a child of n elements, as A(i, j) makes it on the
\* child A(i) of a mutable A.
C2_Inner ==
    (Len(view.args) = 2 /\ ~view.const /\ C2_Law(Len(A), view.args[1]) # 0) =>
        LET a == A[C2_Law(Len(A), view.args[1])]
            p == C2_Law(Len(heap[a]), view.args[2])
        IN  IF p = 0 THEN view.err = "OutOfRange"
            ELSE view.err = "none" /\ view.kind = "element"
                 /\ view.addr = a /\ view.pos = p

\* A call that ends with OutOfRange, an index or a write, changes no array.
C2_Frame ==
    (view'.err = "OutOfRange" \/ err' = "OutOfRange") => (heap' = heap /\ A' = A)

\* C2: on a sequence of length n, at and the single-index call give element i for
\* 0 <= i < n, the element of index i + n for -n <= i < 0 (so -1 is the last
\* one), and fail with OutOfRange for i >= n and i < -n (every index when
\* n = 0), leaving the array unchanged.
C2_AtLaw == [](C2_Outer /\ C2_Inner) /\ [][C2_Frame]_vars

\* A(-1) gave the last child of an A of MaxLen children.
C2_Witness ==
    /\ view.args = <<-1>>
    /\ Len(A) = MaxLen
    /\ view.err = "none"
    /\ view.kind = "child"
    /\ view.addr = A[MaxLen]


\* ------------------------------------------------------------------ C6
\* The integer a literal -?\d+ denotes, read without std::stoi, and whether it
\* lies in the range of int.
C6_DigitOf(c) ==
    CHOOSE k \in 0..9 : <<"0", "1", "2", "3", "4", "5", "6", "7", "8", "9">>[k + 1] = c
C6_Neg(lit) == lit[1] = "-"
RECURSIVE C6_StripZeros(_)
C6_StripZeros(d) ==
    IF Len(d) > 1 /\ d[1] = "0" THEN C6_StripZeros(Tail(d)) ELSE d
C6_Digits(lit) == C6_StripZeros(IF C6_Neg(lit) THEN Tail(lit) ELSE lit)
RECURSIVE C6_LexLeq(_, _)
C6_LexLeq(d, e) ==
    \/ d = <<>>
    \/ C6_DigitOf(d[1]) < C6_DigitOf(e[1])
    \/ d[1] = e[1] /\ C6_LexLeq(Tail(d), Tail(e))
C6_InInt(lit) ==
    LET d == C6_Digits(lit)
    IN  \/ Len(d) < 10
        \/ /\ Len(d) = 10
           /\ C6_LexLeq(d, IF C6_Neg(lit)
                           THEN <<"2","1","4","7","4","8","3","6","4","8">>
                           ELSE <<"2","1","4","7","4","8","3","6","4","7">>)
RECURSIVE C6_Signed(_, _)
C6_Signed(d, sign) ==
    IF d = <<>> THEN 0
    ELSE sign * C6_DigitOf(d[Len(d)]) + 10 * C6_Signed(SubSeq(d, 1, Len(d) - 1), sign)
C6_Value(lit) == C6_Signed(C6_Digits(lit), IF C6_Neg(lit) THEN -1 ELSE 1)

\* The fields of the expressions: absent, or an integer literal.
C6_Fields == OptInts \cup BigInts
C6_Fits(f) == f = <<>> \/ C6_InInt(f)
C6_Or(f, dflt) == IF f = <<>> THEN dflt ELSE C6_Value(f)

\* The Range the claim gives "a:b" and "a:b:c", each field in the range of int.
C6_Two(r, a, b) ==
    /\ r.err = "none"
    /\ r.start = C6_Or(a, 0)
    /\ r.has_stop = (b # <<>>)
    /\ b # <<>> => r.stop = C6_Value(b)
    /\ r.step = 1
C6_Three(r, a, b, c) ==
    /\ r.err = "none"
    /\ r.start = C6_Or(a, 0)
    /\ r.has_stop = (b # <<>>)
    /\ b # <<>> => r.stop = C6_Value(b)
    /\ r.step = C6_Or(c, 1)

\* Whether the text parsed is "a:b" or "a:b:c", bare or with white space
\* around every field.
C6_IsTwo(a, b) == input = Colon2(a, b) \/ input = Colon2(Pad(a), Pad(b))
C6_IsThree(a, b, c) ==
    input = Colon3(a, b, c) \/ input = Colon3(Pad(a), Pad(b), Pad(c))

C6_NoColon == \A n \in 1..Len(input) : input[n] # ":"

\* C6 as claimed: the parser gives start (0 when absent), hasStop exactly when a
\* stop is given and then stop, step (1 when absent, and in the two-field form),
\* for every integer given, checking no value; text without a colon fails with
\* FormatError.
C6_Original ==
    (pc = "parse" /\ slices # <<>>) =>
        /\ \A a \in C6_Fields, b \in C6_Fields :
              C6_IsTwo(a, b) =>
                 IF C6_Fits(a) /\ C6_Fits(b) THEN C6_Two(slices[1], a, b)
                 ELSE slices[1].err = "none"
        /\ \A a \in C6_Fields, b \in C6_Fields, c \in C6_Fields :
              C6_IsThree(a, b, c) =>
                 IF C6_Fits(a) /\ C6_Fits(b) /\ C6_Fits(c)
                 THEN C6_Three(slices[1], a, b, c)
                 ELSE slices[1].err = "none"
        /\ C6_NoColon => slices[1].err = "FormatError"

\* C6 as amended: the same for integers in the range of int; an integer
\* outside it makes the parse fail with the out_of_range of std::stoi.
C6_Parser ==
    (pc = "parse" /\ slices # <<>>) =>
        /\ \A a \in C6_Fields, b \in C6_Fields :
              C6_IsTwo(a, b) =>
                 IF C6_Fits(a) /\ C6_Fits(b) THEN C6_Two(slices[1], a, b)
                 ELSE slices[1].err = "OutOfRange"
        /\ \A a \in C6_Fields, b \in C6_Fields, c \in C6_Fields :
              C6_IsThree(a, b, c) =>
                 IF C6_Fits(a) /\ C6_Fits(b) /\ C6_Fits(c)
                 THEN C6_Three(slices[1], a, b, c)
                 ELSE slices[1].err = "OutOfRange"
        /\ C6_NoColon => slices[1].err = "FormatError"

\* " -1 :  : 2 " was parsed to start -1, no stop, step 2.
C6_Witness ==
    /\ pc = "parse"
    /\ input = Colon3(Pad(<<"-", "1">>), Pad(<<>>), Pad(<<"2">>))
    /\ slices = <<MkRange(-1, 0, 2, FALSE)>>


\* ------------------------------------------------------------------ C3
\* The array a value of the client's other name denotes.
C3_Other(t) == IF t = "A" THEN B ELSE A

\* No child of the slice returned, or of B, is stored where a child of A is.
C3_Disjoint ==
    /\ (pc = "returned" /\ err = "none") => Rows(ret) \cap Rows(A) = {}
    /\ hasB => Rows(B) \cap Rows(A) = {}

\* A["0:m:1"], m the length of A, is element-wise equal to A.
C3_FullRange ==
    (pc = "returned" /\ input = Colon3(<<"0">>, IntText(Len(A)), <<"1">>)) =>
        /\ err = "none"
        /\ Value(heap, ret) = Value(heap, A)

\* A write t(i, j) = v or t(i) = c leaves the other array as it was, and changes
\* in t at most the element, or the child, the indices name.
C3_Frame ==
    writes' # writes =>
    \A t \in {"A", "B"} :
        /\ (\E i \in WriteIndices, j \in WriteIndices, v \in WriteVals :
               WriteElement(t, i, j, v) /\ hasB)
           => /\ Value(heap', C3_Other(t)) = Value(heap, C3_Other(t))
              /\ Cardinality({<<a, c>> \in Rows(Named(t)) \X (1..MaxLen) :
                     c <= Len(heap[a]) /\ heap'[a][c] # heap[a][c]}) <= 1
              /\ \A a \in Rows(Named(t)) : Len(heap'[a]) = Len(heap[a])
        /\ (\E i \in WriteIndices : WriteChild(t, i, <<7>>) /\ hasB)
           => /\ Value(heap', C3_Other(t)) = Value(heap, C3_Other(t))
              /\ Cardinality({a \in Rows(Named(t)) : heap'[a] # heap[a]}) <= 1

\* C3: a slice shares no storage with its source; writes through operator() to
\* either array never change the other, and change nothing but what they
\* write; A["0:m:1"] equals A when taken and stays as it was.
C3_Independence == [](C3_Disjoint /\ C3_FullRange) /\ [][C3_Frame]_vars

\* B was sliced from a full A, A's first element was then written, and B still
\* holds the value it was copied with.
C3_Witness ==
    /\ hasB
    /\ writes = MaxWrites
    /\ Len(A) = MaxLen
    /\ Len(B) = MaxLen
    /\ Len(heap[A[1]]) = MaxLen
    /\ heap[A[1]][1] = -1
    /\ Len(heap[B[1]]) = MaxLen
    /\ heap[B[1]][1] = 11

\* ------------------------------------------------------------------ C5
\* The number of ',' in a text.
C5_Commas(str) == Cardinality({n \in 1..Len(str) : str[n] = ","})

\* C5: a spec of more than dim comma-separated components (the last one not
\* empty) always fails with TooManySlices, whatever the components hold, and no
\* element of A is read.
C5_Original ==
    (pc = "returned" /\ C5_Commas(input) >= dim /\ input[Len(input)] # ",") =>
        (err = "TooManySlices" /\ ~accessed)

\* ---------------------------------------------------- the reference slice
\* The limit of a range on an axis of n elements, as an integer.
Ref_Limit(r, n) == IF r.has_stop THEN r.stop ELSE n

\* The indices start, start + step, ... below limit, for step > 0.
Ref_Visited(r, n) ==
    LET limit == Ref_Limit(r, n)
        count == IF r.start < limit
                 THEN (limit - r.start + r.step - 1) \div r.step ELSE 0
    IN  [m \in 1..count |-> r.start + (m - 1) * r.step]

\* select on a child (a sequence of elements) with the ranges from depth d.
Ref_SelectChild(row, ranges, d, k) ==
    IF d = k THEN row
    ELSE LET v == Ref_Visited(ranges[d + 1], Len(row))
         IN  [m \in 1..Len(v) |-> row[C2_Law(Len(row), v[m])]]

\* select(A, ranges, 0, k) on the value of a rank-2 array, k >= 1.
Ref_Select(val, ranges, k) ==
    LET v == Ref_Visited(ranges[1], Len(val))
    IN  [m \in 1..Len(v) |->
            Ref_SelectChild(val[C2_Law(Len(val), v[m])], ranges, 1, k)]

\* step > 0, 0 <= start and limit <= n: every index visited is in range.
Ref_InRange(r, n) == r.step > 0 /\ 0 <= r.start /\ Ref_Limit(r, n) <= n

\* ------------------------------------------------------------------ C1
\* The ranges of the call are in range on every axis they are applied to.
C1_Pre ==
    /\ end >= 1
    /\ Ref_InRange(slices[1], Len(A))
    /\ end = 2 =>
          \A m \in 1..Len(Ref_Visited(slices[1], Len(A))) :
              Ref_InRange(slices[2],
                          Len(heap[A[Ref_Visited(slices[1], Len(A))[m] + 1]]))

\* C1: with k <= dim ranges whose visited indices are all in range, A[spec] is
\* select(A, ranges, 0, k): the children at start, start + step, ... below
\* limit in that order, each sliced by the later ranges, axes without a range
\* kept whole; ceil((limit - start) / step) of them, or none.
C1_Original ==
    (pc = "returned" /\ end >= 1 /\ C1_Pre) =>
        /\ err = "none"
        /\ Value(heap, ret) = Ref_Select(Value(heap, A), slices, end)

\* ------------------------------------------------------------------ C7
\* C7: one range with -n <= start < 0, step > 0 and start < limit <= n selects
\* the child at start + n first, then those at start + step, ... below limit:
\* the result is not empty.
C7_Original ==
    (/\ pc = "returned"
     /\ end = 1
     /\ slices[1].step > 0
     /\ -Len(A) <= slices[1].start
     /\ slices[1].start < 0
     /\ slices[1].start < Ref_Limit(slices[1], Len(A))
     /\ Ref_Limit(slices[1], Len(A)) <= Len(A))
    => /\ err = "none"
       /\ ret # <<>>
       /\ Value(heap, ret) = Ref_Select(Value(heap, A), slices, 1)

\* ------------------------------------------------------------------ C8
\* C8: a range with an explicit stop and start >= stop, a negative stop
\* included, selects nothing on its axis: the result there is empty, no
\* element is read and no error is raised.
C8_Original ==
    /\ (pc = "returned" /\ end >= 1 /\ slices[1].has_stop
          /\ slices[1].start >= slices[1].stop)
       => (err = "none" /\ ret = <<>> /\ ~accessed)
    /\ (pc = "returned" /\ end = 2 /\ slices[2].has_stop
          /\ slices[2].start >= slices[2].stop
          /\ Ref_InRange(slices[1], Len(A)))
       => /\ err = "none"
          /\ Len(ret) = Len(Ref_Visited(slices[1], Len(A)))
          /\ \A m \in 1..Len(ret) : heap[ret[m]] = <<>>

\* ------------------------------------------------------------------ C9
\* A is as it was built.
C9_Unchanged ==
    /\ A = [a \in 1..Len(A) |-> a]
    /\ \A a \in 1..Len(A) : heap[a] = [c \in 1..Len(heap[a]) |-> 10 * a + c]

\* C9: when a range with step > 0 visits an index i >= n below its limit on an
\* axis of n elements, A[spec] fails with OutOfRange; nothing is returned, what
\* was collected is destroyed and A is unchanged.
C9_Original ==
    (/\ pc = "returned"
     /\ end >= 1
     /\ slices[1].step > 0
     /\ \E i \in (-MaxIdx)..(2 * MaxIdx) :
           /\ i >= slices[1].start
           /\ (i - slices[1].start) % slices[1].step = 0
           /\ i < Ref_Limit(slices[1], Len(A))
           /\ i >= Len(A))
    => /\ err = "OutOfRange"
       /\ ret = <<>>
       /\ DOMAIN heap = Rows(A)
       /\ C9_Unchanged

\* ------------------------------------------------------------------ C10
\* Every range applied has a step other than 0.
C10_NoZeroStep == \A m \in 1..end : slices[m].step # 0

\* start is a valid index of an axis of n elements, below the limit.
C10_CanSpin(r, n) ==
    /\ r.step = 0
    /\ C2_Law(n, r.start) # 0
    /\ r.start < Ref_Limit(r, n)

\* An activation whose loop has run its body and left i where it was.
C10_Spinning(f) == f.r.step = 0 /\ f.result # <<>>

\* C10: a call whose ranges all have a step other than 0 returns or throws;
\* the loop runs for ever only with step = 0 and a start that is a valid index
\* below the limit, and then it does.
C10_Original ==
    /\ [](pc = "slice" /\ C10_NoZeroStep => <>(pc = "returned"))
    /\ [](pc = "slice" =>
            \A m \in 1..Len(stack) :
               C10_Spinning(stack[m]) => C10_CanSpin(stack[m].r, SizeOf(stack[m])))
    /\ [](pc = "returned" /\ end >= 1 => ~C10_CanSpin(slices[1], Len(A)))

\* The termination half of C10 alone.
C10_Terminates == [](pc = "slice" /\ C10_NoZeroStep => <>(pc = "returned"))

\* ------------------------------------------------------------------ C4
\* The reference the chain at(...at(A, i1)..., ik) gives.
C4_Chain ==
    /\ C2_Outer
    /\ Len(view.args) = 2 =>
          LET p == C2_Law(Len(A), view.args[1])
              q == IF p = 0 THEN 0 ELSE C2_Law(Len(heap[A[p]]), view.args[2])
          IN  IF p = 0 \/ q = 0 THEN view.err = "OutOfRange"
              ELSE /\ view.err = "none"
                   /\ view.kind = "element"
                   /\ view.addr = A[p]
                   /\ view.pos = q

\* A write through A(i, j) changes that element and nothing else.
C4_Write ==
    \A i \in WriteIndices, j \in WriteIndices, v \in WriteVals :
        WriteElement("A", i, j, v) =>
            LET p == C2_Law(Len(A), i)
                q == IF p = 0 THEN 0 ELSE C2_Law(Len(heap[A[p]]), j)
            IN  IF p = 0 \/ q = 0 THEN err' = "OutOfRange" /\ heap' = heap
                ELSE heap' = [heap EXCEPT ![A[p]][q] = v]

\* C4: A(i1, ..., ik), on a mutable and on a const A, is the element the chain
\* of at reaches: the child itself for k < dim, the scalar itself for k = dim;
\* a write through it changes that element only; a bad index at any level is
\* OutOfRange.
C4_Original == []C4_Chain /\ [][C4_Write]_vars

=============================================================================
